---- MODULE Spec2Model ----
(***************************************************************************)
(* A model of the IAP tunnel client (package iap, type Conn): the two      *)
(* background loops read() and write(), the two io.Pipe conduits, the      *)
(* unbuffered announcement channel sendNbCh, the once-guarded Close, the   *)
(* application's Read, Write, Close and deadline calls, and the            *)
(* Forwarder's handleConn over a tunnel.                                   *)
(*                                                                         *)
(* Byte strings are sequences of segments [src, off, len]: `len` bytes     *)
(* starting at offset `off` of the stream `src`.  Stream k >= 1 is the     *)
(* buffer of the k-th Write call, stream PeerSrc is the concatenation of   *)
(* the payloads the peer sends, stream ZeroSrc is zero bytes produced by   *)
(* make([]byte, n).  Every byte of a buffer is thereby distinct from every *)
(* other byte, so equality of two byte strings in the model is equality    *)
(* for every content the buffers may have.                                 *)
(***************************************************************************)
EXTENDS Integers, Sequences, FiniteSets, TLC

\* ---------------------------------------------------------------- constants

subprotoMaxFrameSize == 16384

subprotoAckThreshold == 2 * subprotoMaxFrameSize

subprotoTagSuccess == 1

subprotoTagData == 4

subprotoTagAck == 7

\* a tag that is none of the three defined ones
UnknownTag == subprotoTagAck + 2

\* ------------------------------------------------------------------- bounds

\* application threads that call Write
NumWriters == 2

\* Write calls over the tunnel's lifetime, on the sending side's specification
MaxWrites == 2

\* Write calls over the tunnel's lifetime, on the receiving side's specification
MaxWritesRecv == 1

\* application threads that call Close (each calls it once)
NumClosers == 2

\* inbound frames over the tunnel's lifetime, on the sending side's specification
MaxFramesSend == 2

\* inbound frames over the tunnel's lifetime, on the receiving side's specification
MaxFrames == 4

\* inbound frames over the tunnel's lifetime, on the specification of the
\* handshake
MaxFramesHandshake == 4

\* inbound frames over the tunnel's lifetime, on the specification of the
\* acknowledgements
MaxFramesAck == 7

\* Write calls over the tunnel's lifetime, on the specification of the
\* handshake
MaxWritesHandshake == 1

\* inbound frames over the tunnel's lifetime, on the specification of Close
MaxFramesClose == 4

\* Write calls over the tunnel's lifetime, on the specification of Close
MaxWritesClose == 1

\* chunks of bytes the client of a forwarded connection sends
MaxChunks == 2

\* inbound frames over the lifetime of a forwarded connection's tunnel
MaxFramesProxy == 3

\* lengths of the buffers handed to Write
WriteLens == {0, 5, 20000}

\* sizes of the buffers handed to Read
ReadSizes == {10000, 32768}

\* io.Copy's buffer: make([]byte, 32*1024)
CopyBufSize == 32768

\* numbers of bytes one conn.Read of the client socket returns to io.Copy
ChunkLens == {5, 20000}

\* ------------------------------------------------------------------- errors

Err(kind, code, reason) == [kind |-> kind, code |-> code, reason |-> reason]

NoErr == Err("nil", 0, "")

EOF == Err("io.EOF", 0, "")

ErrClosedPipe == Err("io.ErrClosedPipe", 0, "")

NetClosed == Err("net.ErrClosed", 0, "")

ProtocolError(msg) == Err("ProtocolError", 0, msg)

ErrLen == ProtocolError("len exceeds subprotocol max data frame size")

ErrNoSuccess == ProtocolError("expected success frame but not did receive one")

WsCloseError(code, reason) == Err("websocket.CloseError", code, reason)

CloseError(code, reason) == Err("CloseError", code, reason)

\* errors.As(err, &closeError): a websocket.CloseError becomes a CloseError
\* with the same code and reason, every other error is kept
ConvertErr(err) ==
    IF err.kind = "websocket.CloseError" THEN CloseError(err.code, err.reason)
    ELSE err

\* the ways the transport can fail on its own
TransportErrs == {WsCloseError(1000, "bye"), EOF}

EPIPE == Err("syscall.EPIPE", 0, "")

\* what a read or a write of the transport returns once its deadline has passed
ErrDeadlineExceeded == Err("os.ErrDeadlineExceeded", 0, "")

\* the deadlines handed to SetDeadline, SetReadDeadline and SetWriteDeadline:
\* a time that has passed, or time.Time{}, which lifts the deadline
DeadlineTimes == {"past", "zero"}

\* -------------------------------------------------------------- byte strings

ZeroSrc == 0

PeerSrc == -1

Seg(s, o, l) == [src |-> s, off |-> o, len |-> l]

\* make([]byte, n)
Zeros(n) == IF n = 0 THEN << >> ELSE << Seg(ZeroSrc, 0, n) >>

\* the buffer of the Write call `id`, of length n
Buf(id, n) == IF n = 0 THEN << >> ELSE << Seg(id, 0, n) >>

RECURSIVE BLen(_)
BLen(b) == IF b = << >> THEN 0 ELSE b[1].len + BLen(Tail(b))

\* append(a, b...), adjacent segments of one stream merged
BCat(a, b) ==
    IF a = << >> THEN b
    ELSE IF b = << >> THEN a
    ELSE LET la == a[Len(a)]
             fb == b[1]
         IN IF la.src = fb.src /\ (la.src = ZeroSrc \/ la.off + la.len = fb.off)
            THEN SubSeq(a, 1, Len(a) - 1)
                   \o << Seg(la.src, la.off, la.len + fb.len) >> \o Tail(b)
            ELSE a \o b

\* b[:n]
RECURSIVE BTake(_, _)
BTake(b, n) ==
    IF n = 0 \/ b = << >> THEN << >>
    ELSE IF b[1].len <= n THEN BCat(<< b[1] >>, BTake(Tail(b), n - b[1].len))
    ELSE << Seg(b[1].src, b[1].off, n) >>

\* b[n:], dropping nothing
BDrop_stay(b, n) == b

\* b[n:]
RECURSIVE BDrop(_, _)
BDrop(b, n) ==
    IF n = 0 \/ b = << >> THEN b
    ELSE IF b[1].len <= n THEN BDrop(Tail(b), n - b[1].len)
    ELSE << Seg(b[1].src, IF b[1].src = ZeroSrc THEN 0 ELSE b[1].off + n,
                b[1].len - n) >> \o Tail(b)

Min(a, b) == IF a <= b THEN a ELSE b

\* ------------------------------------------------------------------- frames

Frame(tag, len, payload, nb) ==
    [tag |-> tag, len |-> len, payload |-> payload, nb |-> nb]

\* the counters and lengths of the model stay far below 2^32, so that
\* PutUint32 and PutUint64 keep them as they are
makeAckFrame(nb) == Frame(subprotoTagAck, 0, << >>, nb)

makeDataFrame(data) == Frame(subprotoTagData, BLen(data), data, 0)

\* a - b on uint64: the difference, or a value above every threshold when
\* the subtraction wraps around
Sub64(a, b) == IF a >= b THEN a - b ELSE subprotoAckThreshold + 1


\* the session ids the peer hands out, "abcd" and "wxyz", as bytes
SessionABCD == << 97, 98, 99, 100 >>

SessionWXYZ == << 119, 120, 121, 122 >>

\* make([]byte, n) for the session id
MakeBytes(n) == [i \in 1 .. n |-> 0]

\* buf after r.Read(buf) has put the first k bytes of s into it
ReadInto(buf, s, k) ==
    [i \in 1 .. Len(buf) |-> IF i <= k THEN s[i] ELSE buf[i]]

\* binary.BigEndian.Uint16
Uint16(b) == b[1] * 256 + b[2]

\* inbound frames: tag, declared length, ACK count, session id, and the
\* sizes of the successive transport reads that deliver the session id of a
\* SUCCESS frame or the payload of a DATA frame (one read, or two when the
\* transport returns a short read).  The transport delivers the two bytes
\* of a tag and the four or eight bytes after it in one read each.
InFrame(tag, len, nb, sid, chunks) ==
    [tag |-> tag, len |-> len, nb |-> nb, sid |-> sid, chunks |-> chunks]

\* the read of the session id of SUCCESS frame f returns fewer bytes than
\* the frame declares
ShortID(f) ==
    /\ f.tag = subprotoTagSuccess
    /\ f.len <= subprotoMaxFrameSize
    /\ f.chunks # << >>
    /\ Head(f.chunks) < f.len

\* what the reader loop finds on the transport after the short read of the
\* session id of f: the two bytes left over, taken for the tag of a frame
LeftoverFrame(f) ==
    InFrame(Uint16(SubSeq(f.sid, Head(f.chunks) + 1, f.len)), 0, 0, << >>, << >>)

InboundFrames ==
    { InFrame(subprotoTagSuccess, 4, 0, SessionABCD, << 4 >>),
      InFrame(subprotoTagSuccess, 4, 0, SessionABCD, << 2 >>),
      InFrame(subprotoTagSuccess, 4, 0, SessionWXYZ, << 4 >>),
      InFrame(subprotoTagSuccess, subprotoMaxFrameSize + 1, 0, << >>, << >>),
      InFrame(subprotoTagData, 0, 0, << >>, << >>),
      InFrame(subprotoTagData, 1, 0, << >>, << 1 >>),
      InFrame(subprotoTagData, subprotoMaxFrameSize, 0, << >>,
              << subprotoMaxFrameSize >>),
      InFrame(subprotoTagData, subprotoMaxFrameSize, 0, << >>,
              << 10000, subprotoMaxFrameSize - 10000 >>),
      InFrame(subprotoTagData, subprotoMaxFrameSize + 1, 0, << >>, << >>),
      InFrame(subprotoTagAck, 0, 5, << >>, << >>),
      InFrame(subprotoTagAck, 0, 3, << >>, << >>),
      InFrame(UnknownTag, 0, 0, << >>, << >>) }

\* -------------------------------------------------------------------- state

VARIABLES
    connected,      \* Conn.connected
    sessionID,      \* Conn.sessionID
    recvNbAcked,    \* Conn.recvNbAcked
    recvNbUnacked,  \* Conn.recvNbUnacked
    sendNbAcked,    \* Conn.sendNbAcked
    recvPipe,       \* recvReader/recvWriter: [offer, data, werr]
    sendPipe,       \* sendReader/sendWriter: [offer, data, werr]
    chClosed,       \* sendNbCh has been closed
    onceDone,       \* the sync.OnceFunc of closeOnceFunc has run
    chCloses,       \* number of close(c.sendNbCh) executed
    connCloses,     \* number of c.conn.Close() calls made
    connErr,        \* the error the transport now returns, NoErr while usable
    rd,             \* the reader loop, Conn.read
    wr,             \* the writer loop, Conn.write
    calls,          \* the Write calls made so far, by call id
    wthread,        \* per writing thread: the id of its Write call in progress, or 0
    rcall,          \* the application's Read call
    closers,        \* per closing thread: its position in Close
    wire,           \* the frames written to the transport, in order
    wireOf,         \* per written frame: the Write call being served, 0 for the reader loop
    wireLate,       \* the positions on the wire of the frames written to a closed tunnel
    delivered,      \* the bytes returned by Read so far
    nframes,        \* inbound frames handed to the reader loop so far
    lastFrame,      \* the last of them
    peerOff,        \* payload bytes the transport has delivered so far
    panicked,       \* a goroutine has panicked: the program is gone
    deadline,       \* the transport's read and write deadlines: TRUE when passed
    fwd             \* the Forwarder's handleConn for an accepted client connection

vars == << connected, sessionID, recvNbAcked, recvNbUnacked, sendNbAcked,
           recvPipe, sendPipe, chClosed, onceDone, chCloses, connCloses, connErr,
           rd, wr, calls, wthread, rcall, closers, wire, wireOf, wireLate, delivered,
           nframes, lastFrame, peerOff, panicked, deadline, fwd >>

\* the variables of one Conn
tunnelVars == << connected, sessionID, recvNbAcked, recvNbUnacked, sendNbAcked,
                 recvPipe, sendPipe, chClosed, onceDone, chCloses, connCloses,
                 connErr, rd, wr, calls, wthread, rcall, closers, wire, wireOf, wireLate,
                 delivered, nframes, lastFrame, peerOff, panicked, deadline >>

connVars == << connected, sessionID, recvNbAcked, recvNbUnacked, sendNbAcked >>

closeVars == << chClosed, onceDone, chCloses, connCloses, closers >>

Writers == 1 .. NumWriters

\* handleConn has been started for an accepted connection: where it and
\* the copy it started are, the chunks the client has sent and conn.Read
\* has not yet returned, and the bytes written to the client
Accepted ==
    [pc |-> "dial", dialed |-> FALSE, up |-> "none", chunk |-> 0,
     down |-> "none", client |-> "open", sockClosed |-> FALSE,
     fromClient |-> << >>, nsent |-> 0, sentClient |-> 0]

Closers == 1 .. NumClosers

\* io.Pipe()
Pipe == [offer |-> FALSE, data |-> << >>, werr |-> NoErr]

\* CloseWithError, the last error kept instead of the first
CloseWithError_last(p, err) == [p EXCEPT !.werr = err]

\* onceError.Store via PipeWriter.CloseWithError: the first error is kept
CloseWithError(p, err) ==
    [p EXCEPT !.werr = IF p.werr = NoErr THEN err ELSE p.werr]

\* the reader loop at pc; ackFailed records that readFrame returned the
\* error of writeAck
ReaderAt(pc) ==
    [pc |-> pc, err |-> NoErr, derr |-> NoErr, flen |-> 0, rem |-> 0,
     chunks |-> << >>, ackFailed |-> FALSE]

WriterAt(pc) ==
    [pc |-> pc, err |-> NoErr, nb |-> 0, writeNb |-> 0, buf |-> << >>,
     call |-> 0]

\* the tunnel is closed: a call of Close has returned, or a loop has closed
\* both pipes with its error
Closed ==
    \/ \E c \in Closers : closers[c] = "returned"
    \/ sendPipe.werr # NoErr /\ recvPipe.werr # NoErr

\* wireLate after a frame is appended to the wire
Late == IF Closed THEN wireLate \cup {Len(wire) + 1} ELSE wireLate

\* newConn
Init ==
    /\ connected = FALSE
    /\ sessionID = << >>
    /\ recvNbAcked = 0
    /\ recvNbUnacked = 0
    /\ sendNbAcked = 0
    /\ recvPipe = Pipe
    /\ sendPipe = Pipe
    /\ chClosed = FALSE
    /\ onceDone = FALSE
    /\ chCloses = 0
    /\ connCloses = 0
    /\ connErr = NoErr
    /\ rd = ReaderAt("readFrame")
    /\ wr = WriterAt("recv")
    /\ calls = << >>
    /\ wthread = [t \in Writers |-> 0]
    /\ rcall = [pc |-> "idle", size |-> 0, n |-> 0, err |-> NoErr,
                ended |-> NoErr]
    /\ closers = [c \in Closers |-> "idle"]
    /\ wire = << >>
    /\ wireOf = << >>
    /\ wireLate = {}
    /\ delivered = << >>
    /\ nframes = 0
    /\ lastFrame = InFrame(0, 0, 0, << >>, << >>)
    /\ peerOff = 0
    /\ panicked = FALSE
    /\ deadline = [read |-> FALSE, write |-> FALSE]
    /\ fwd = Accepted


\* the errors c.conn.Read can return now, none when it can deliver bytes:
\* net.ErrClosed once the transport is closed; otherwise the error the
\* transport has ended with, or a timeout when the read deadline has passed
ConnReadErrs ==
    IF connErr = NetClosed THEN {NetClosed}
    ELSE (IF connErr # NoErr THEN {connErr} ELSE {})
           \cup (IF deadline.read THEN {ErrDeadlineExceeded} ELSE {})

\* the errors c.conn.Write can return now, none when it can take bytes:
\* net.ErrClosed once the transport is closed; otherwise the error the
\* transport has ended with (a broken pipe when the peer ended the stream
\* cleanly), or a timeout when the write deadline has passed
ConnWriteErrs ==
    IF connErr = NetClosed THEN {NetClosed}
    ELSE (IF connErr = NoErr THEN {}
          ELSE IF connErr = EOF THEN {EPIPE} ELSE {connErr})
           \cup (IF deadline.write THEN {ErrDeadlineExceeded} ELSE {})

\* ------------------------------------------------------ application: Write

Call(t, n, term) ==
    [thread |-> t, len |-> n, st |-> "announce", n |-> 0, err |-> NoErr,
     term |-> term, served |-> "no"]

\* Write is entered: the caller is about to send len(buf) on sendNbCh
Conn_Write(t, n) ==
    /\ ~panicked
    /\ wthread[t] = 0
    /\ calls' = Append(calls, Call(t, n, sendPipe.werr))
    /\ wthread' = [wthread EXCEPT ![t] = Len(calls) + 1]
    /\ UNCHANGED << deadline, connVars, closeVars, recvPipe, sendPipe, connErr, rd, wr,
                    rcall, wire, wireOf, wireLate, delivered, nframes, lastFrame, peerOff, panicked >>

\* Write, called by the application
Write(t, n) ==
    /\ Conn_Write(t, n)
    /\ UNCHANGED fwd

\* c.sendNbCh <- len(buf) on a closed channel: the send panics
Write_panic(t) ==
    /\ ~panicked
    /\ wthread[t] # 0
    /\ calls[wthread[t]].st = "announce"
    /\ chClosed
    /\ panicked' = TRUE
    /\ UNCHANGED << fwd, deadline, connVars, closeVars, recvPipe, sendPipe, connErr, rd, wr,
                    calls, wthread, rcall, wire, wireOf, wireLate, delivered, nframes, lastFrame,
                    peerOff >>

\* c.sendWriter.Write(buf) is entered: it returns ErrClosedPipe when the pipe
\* is closed, otherwise takes the pipe's write lock and offers buf
Write_pipe(t) ==
    /\ ~panicked
    /\ wthread[t] # 0
    /\ calls[wthread[t]].st = "pipeWrite"
    /\ IF sendPipe.werr # NoErr
       THEN /\ calls' = [calls EXCEPT ![wthread[t]].st = "returned",
                                      ![wthread[t]].err = ErrClosedPipe]
            /\ wthread' = [wthread EXCEPT ![t] = 0]
            /\ UNCHANGED sendPipe
       ELSE /\ ~sendPipe.offer
            /\ sendPipe' = [sendPipe EXCEPT
                              !.offer = TRUE,
                              !.data = Buf(wthread[t], calls[wthread[t]].len)]
            /\ calls' = [calls EXCEPT ![wthread[t]].st = "offering"]
            /\ UNCHANGED wthread
    /\ UNCHANGED << fwd, deadline, connVars, closeVars, recvPipe, connErr, rd, wr, rcall,
                    wire, wireOf, wireLate, delivered, nframes, lastFrame, peerOff, panicked >>

\* the pipe is closed while buf is on offer: Write returns the bytes taken
\* so far and ErrClosedPipe
Write_closed(t) ==
    /\ ~panicked
    /\ wthread[t] # 0
    /\ calls[wthread[t]].st = "offering"
    /\ sendPipe.werr # NoErr
    /\ calls' = [calls EXCEPT ![wthread[t]].st = "returned",
                              ![wthread[t]].err = ErrClosedPipe]
    /\ wthread' = [wthread EXCEPT ![t] = 0]
    /\ sendPipe' = [sendPipe EXCEPT !.offer = FALSE, !.data = << >>]
    /\ UNCHANGED << fwd, deadline, connVars, closeVars, recvPipe, connErr, rd, wr, rcall,
                    wire, wireOf, wireLate, delivered, nframes, lastFrame, peerOff, panicked >>

\* ------------------------------------------------------------- writer loop

\* the id of the Write call whose buffer is on offer in the send pipe
Offerer == CHOOSE id \in 1 .. Len(calls) : calls[id].st = "offering"

\* Chunk, without the clamp to the frame size
Chunk_noClamp(w, nb) ==
    IF nb > 0
    THEN [w EXCEPT !.pc = "pipeRead", !.writeNb = nb, !.nb = 0, !.buf = << >>]
    ELSE WriterAt("recv")

\* Chunk, forgetting what is left after the first frame
Chunk_dropRest(w, nb) ==
    IF nb > 0
    THEN [w EXCEPT !.pc = "pipeRead",
                   !.writeNb = Min(nb, subprotoMaxFrameSize),
                   !.nb = 0,
                   !.buf = << >>]
    ELSE WriterAt("recv")

\* the next chunk of an announcement with nb bytes left: clamp to the frame size
Chunk(w, nb) ==
    IF nb > 0
    THEN [w EXCEPT !.pc = "pipeRead",
                   !.writeNb = Min(nb, subprotoMaxFrameSize),
                   !.nb = nb - Min(nb, subprotoMaxFrameSize),
                   !.buf = << >>]
    ELSE WriterAt("recv")

\* writeFrame returned err: write() converts it and starts closeWriters
WriterFail(err) == [WriterAt("closeSend") EXCEPT !.err = ConvertErr(err)]

\* nb, ok := <-c.sendNbCh meets the send of thread t
writeFrame_recv(t) ==
    /\ ~panicked
    /\ wr.pc = "recv"
    /\ ~chClosed
    /\ wthread[t] # 0
    /\ calls[wthread[t]].st = "announce"
    /\ LET id == wthread[t]
           nb == calls[id].len
       IN /\ calls' = [calls EXCEPT ![id].st = "pipeWrite",
                                    ![id].served = IF nb > 0 THEN "serving"
                                                   ELSE "done"]
          /\ wr' = [Chunk(wr, nb) EXCEPT !.call = IF nb > 0 THEN id ELSE 0]
    /\ UNCHANGED << fwd, deadline, connVars, closeVars, recvPipe, sendPipe, connErr, rd,
                    wthread, rcall, wire, wireOf, wireLate, delivered, nframes, lastFrame, peerOff,
                    panicked >>

\* nb, ok := <-c.sendNbCh on the closed channel: writeFrame returns io.EOF
writeFrame_eof ==
    /\ ~panicked
    /\ wr.pc = "recv"
    /\ chClosed
    /\ wr' = WriterFail(EOF)
    /\ UNCHANGED << fwd, deadline, connVars, closeVars, recvPipe, sendPipe, connErr, rd, calls,
                    wthread, rcall, wire, wireOf, wireLate, delivered, nframes, lastFrame, peerOff,
                    panicked >>

\* buf := make([]byte, writeNb); c.sendReader.Read(buf)
writeFrame_read ==
    /\ ~panicked
    /\ wr.pc = "pipeRead"
    /\ IF sendPipe.werr # NoErr
       THEN /\ wr' = WriterFail(sendPipe.werr)
            /\ calls' = [calls EXCEPT ![wr.call].served = "failed"]
            /\ UNCHANGED << sendPipe, wthread >>
       ELSE /\ sendPipe.offer
            /\ LET nr == Min(wr.writeNb, BLen(sendPipe.data))
                   rest == BDrop(sendPipe.data, nr)
                   id == Offerer
               IN /\ wr' = [wr EXCEPT
                              !.pc = "connWrite",
                              !.buf = BCat(BTake(sendPipe.data, nr),
                                           Zeros(wr.writeNb - nr))]
                  /\ IF rest = << >>
                     THEN /\ sendPipe' = [sendPipe EXCEPT !.offer = FALSE,
                                                          !.data = << >>]
                          /\ calls' = [calls EXCEPT ![id].st = "returned",
                                                    ![id].n = @ + nr]
                          /\ wthread' = [wthread EXCEPT ![calls[id].thread] = 0]
                     ELSE /\ sendPipe' = [sendPipe EXCEPT !.data = rest]
                          /\ calls' = [calls EXCEPT ![id].n = @ + nr]
                          /\ UNCHANGED wthread
    /\ UNCHANGED << fwd, deadline, connVars, closeVars, recvPipe, connErr, rd, rcall, wire,
                    wireOf, wireLate, delivered, nframes, lastFrame, peerOff, panicked >>

\* c.conn.Write(makeDataFrame(buf)), then the next chunk or the next announcement
writeFrame_write ==
    /\ ~panicked
    /\ wr.pc = "connWrite"
    /\ IF ConnWriteErrs # {}
       THEN /\ \E e \in ConnWriteErrs : wr' = WriterFail(e)
            /\ calls' = [calls EXCEPT ![wr.call].served = "failed"]
            /\ UNCHANGED << wire, wireOf, wireLate >>
       ELSE /\ wire' = Append(wire, makeDataFrame(wr.buf))
            /\ wireOf' = Append(wireOf, wr.call)
            /\ wireLate' = Late
            /\ wr' = Chunk(wr, wr.nb)
            /\ calls' = [calls EXCEPT ![wr.call].served =
                                        IF wr.nb > 0 THEN "serving" ELSE "done"]
    /\ UNCHANGED << fwd, deadline, connVars, closeVars, recvPipe, sendPipe, connErr, rd,
                    wthread, rcall, delivered, nframes, lastFrame, peerOff, panicked >>

\* closeWriters(err) in write(): c.sendWriter.CloseWithError(err)
write_closeSend ==
    /\ ~panicked
    /\ wr.pc = "closeSend"
    /\ sendPipe' = CloseWithError(sendPipe, wr.err)
    /\ wr' = [wr EXCEPT !.pc = "closeRecv"]
    /\ UNCHANGED << fwd, deadline, connVars, closeVars, recvPipe, connErr, rd, calls, wthread,
                    rcall, wire, wireOf, wireLate, delivered, nframes, lastFrame, peerOff, panicked >>

\* closeWriters(err) in write(): c.recvWriter.CloseWithError(err); break
write_closeRecv ==
    /\ ~panicked
    /\ wr.pc = "closeRecv"
    /\ recvPipe' = CloseWithError(recvPipe, wr.err)
    /\ wr' = [wr EXCEPT !.pc = "exited"]
    /\ UNCHANGED << fwd, deadline, connVars, closeVars, sendPipe, connErr, rd, calls, wthread,
                    rcall, wire, wireOf, wireLate, delivered, nframes, lastFrame, peerOff, panicked >>


\* ------------------------------------------------------------- reader loop

\* readFrame returned err: read() converts it and starts closeWriters
ReaderFail(err) == [ReaderAt("closeSend") EXCEPT !.err = ConvertErr(err)]

\* AfterData, with the threshold applied to the count instead of the gap
AfterData_absolute(derr, add) ==
    /\ recvNbUnacked' = recvNbUnacked + add
    /\ IF recvNbUnacked' > subprotoAckThreshold
       THEN rd' = [ReaderAt("writeAck") EXCEPT !.derr = derr]
       ELSE IF derr # NoErr THEN rd' = ReaderFail(derr)
       ELSE rd' = ReaderAt("readFrame")

\* AfterData, with the ACK due one frame later
AfterData_late(derr, add) ==
    /\ recvNbUnacked' = recvNbUnacked + add
    /\ IF Sub64(recvNbUnacked', recvNbAcked) > subprotoAckThreshold + subprotoMaxFrameSize
       THEN rd' = [ReaderAt("writeAck") EXCEPT !.derr = derr]
       ELSE IF derr # NoErr THEN rd' = ReaderFail(derr)
       ELSE rd' = ReaderAt("readFrame")

\* readFrame after readDataFrame returned derr, having added `add` to
\* recvNbUnacked: the threshold test, then return err
AfterData(derr, add) ==
    /\ recvNbUnacked' = recvNbUnacked + add
    /\ IF Sub64(recvNbUnacked', recvNbAcked) > subprotoAckThreshold
       THEN rd' = [ReaderAt("writeAck") EXCEPT !.derr = derr]
       ELSE IF derr # NoErr THEN rd' = ReaderFail(derr)
       ELSE rd' = ReaderAt("readFrame")

\* readFrame, without the test of c.connected
readFrame_noGate(f) ==
    /\ ~panicked
    /\ rd.pc = "readFrame"
    /\ ConnReadErrs = {}
    /\ ShortID(lastFrame) => f = LeftoverFrame(lastFrame)
    /\ nframes' = nframes + 1
    /\ lastFrame' = f
    /\ rd' = IF f.tag = subprotoTagSuccess THEN ReaderAt("readSuccessFrame")
             ELSE IF f.tag = subprotoTagAck THEN ReaderAt("readAckFrame")
             ELSE IF f.tag = subprotoTagData THEN ReaderAt("readDataFrame")
             ELSE ReaderAt("readFrame")
    /\ UNCHANGED << fwd, deadline, connVars, closeVars, recvPipe, sendPipe, connErr,
                    wr, calls, wthread, rcall, wire, wireOf, wireLate, delivered, peerOff,
                    panicked >>

\* readFrame: c.conn.Read delivers the tag of frame f, and the switch on
\* the tag is taken.  After a short read of a session id the bytes left
\* over are what the transport delivers.
readFrame(f) ==
    /\ ~panicked
    /\ rd.pc = "readFrame"
    /\ ConnReadErrs = {}
    /\ ShortID(lastFrame) => f = LeftoverFrame(lastFrame)
    /\ nframes' = nframes + 1
    /\ lastFrame' = f
    /\ rd' = IF f.tag = subprotoTagSuccess THEN ReaderAt("readSuccessFrame")
             ELSE IF ~connected THEN ReaderFail(ErrNoSuccess)
             ELSE IF f.tag = subprotoTagAck THEN ReaderAt("readAckFrame")
             ELSE IF f.tag = subprotoTagData THEN ReaderAt("readDataFrame")
             ELSE ReaderAt("readFrame")
    /\ UNCHANGED << fwd, deadline, connVars, closeVars, recvPipe, sendPipe, connErr,
                    wr, calls, wthread, rcall, wire, wireOf, wireLate, delivered, peerOff,
                    panicked >>

\* readFrame: c.conn.Read of the tag returns an error
readFrame_err ==
    /\ ~panicked
    /\ rd.pc = "readFrame"
    /\ \E e \in ConnReadErrs : rd' = ReaderFail(e)
    /\ UNCHANGED << fwd, deadline, connVars, closeVars, recvPipe, sendPipe, connErr, wr, calls,
                    wthread, rcall, wire, wireOf, wireLate, delivered, nframes, lastFrame, peerOff,
                    panicked >>

\* readSuccessFrame, dropping the handshake when the length is rejected
readSuccessFrame_reset ==
    /\ ~panicked
    /\ rd.pc = "readSuccessFrame"
    /\ IF ConnReadErrs # {}
       THEN /\ \E e \in ConnReadErrs : rd' = ReaderFail(e)
            /\ UNCHANGED << connected, sessionID >>
       ELSE IF lastFrame.len > subprotoMaxFrameSize
       THEN /\ rd' = ReaderFail(ErrLen)
            /\ connected' = FALSE
            /\ UNCHANGED sessionID
       ELSE /\ sessionID' = MakeBytes(lastFrame.len)
            /\ rd' = ReaderAt("readSessionID")
            /\ UNCHANGED connected
    /\ UNCHANGED << fwd, deadline, recvNbAcked, recvNbUnacked, sendNbAcked, closeVars,
                    recvPipe, sendPipe, connErr, wr, calls, wthread, rcall, wire,
                    wireOf, wireLate, delivered, nframes, lastFrame, peerOff, panicked >>

\* readSuccessFrame: r.Read of the length, the test of the length, and
\* c.sessionID = make([]byte, len)
readSuccessFrame ==
    /\ ~panicked
    /\ rd.pc = "readSuccessFrame"
    /\ IF ConnReadErrs # {}
       THEN /\ \E e \in ConnReadErrs : rd' = ReaderFail(e)
            /\ UNCHANGED << connected, sessionID >>
       ELSE IF lastFrame.len > subprotoMaxFrameSize
       THEN /\ rd' = ReaderFail(ErrLen)
            /\ UNCHANGED << connected, sessionID >>
       ELSE /\ sessionID' = MakeBytes(lastFrame.len)
            /\ rd' = ReaderAt("readSessionID")
            /\ UNCHANGED connected
    /\ UNCHANGED << fwd, deadline, recvNbAcked, recvNbUnacked, sendNbAcked, closeVars,
                    recvPipe, sendPipe, connErr, wr, calls, wthread, rcall, wire,
                    wireOf, wireLate, delivered, nframes, lastFrame, peerOff, panicked >>

\* readSuccessFrame: r.Read(c.sessionID), one read that may return fewer
\* bytes than the session id has, and c.connected = true
readSuccessFrame_id ==
    /\ ~panicked
    /\ rd.pc = "readSessionID"
    /\ IF ConnReadErrs # {}
       THEN /\ \E e \in ConnReadErrs : rd' = ReaderFail(e)
            /\ UNCHANGED << connected, sessionID >>
       ELSE /\ sessionID' = ReadInto(sessionID, lastFrame.sid,
                                     Head(lastFrame.chunks))
            /\ connected' = TRUE
            /\ rd' = ReaderAt("readFrame")
    /\ UNCHANGED << fwd, deadline, recvNbAcked, recvNbUnacked, sendNbAcked, closeVars,
                    recvPipe, sendPipe, connErr, wr, calls, wthread, rcall, wire,
                    wireOf, wireLate, delivered, nframes, lastFrame, peerOff, panicked >>

\* readAckFrame: r.Read of the count, and c.sendNbAcked = the count
readAckFrame ==
    /\ ~panicked
    /\ rd.pc = "readAckFrame"
    /\ IF ConnReadErrs # {}
       THEN /\ \E e \in ConnReadErrs : rd' = ReaderFail(e)
            /\ UNCHANGED sendNbAcked
       ELSE /\ sendNbAcked' = lastFrame.nb
            /\ rd' = ReaderAt("readFrame")
    /\ UNCHANGED << fwd, deadline, connected, sessionID, recvNbAcked, recvNbUnacked,
                    closeVars, recvPipe, sendPipe, connErr, wr, calls, wthread,
                    rcall, wire, wireOf, wireLate, delivered, nframes, lastFrame, peerOff,
                    panicked >>

\* readDataFrame up to the call of copyNBuffer: r.Read of the length and
\* the test of the length.  When it returns an error, readFrame still makes
\* the threshold test.
readDataFrame ==
    /\ ~panicked
    /\ rd.pc = "readDataFrame"
    /\ IF ConnReadErrs # {}
       THEN \E e \in ConnReadErrs : AfterData(e, 0)
       ELSE IF lastFrame.len > subprotoMaxFrameSize
       THEN AfterData(ErrLen, 0)
       ELSE /\ rd' = [ReaderAt("copy") EXCEPT !.flen = lastFrame.len,
                                             !.rem = lastFrame.len,
                                             !.chunks = lastFrame.chunks]
            /\ UNCHANGED recvNbUnacked
    /\ UNCHANGED << fwd, deadline, connected, sessionID, recvNbAcked, sendNbAcked,
                    closeVars, recvPipe, sendPipe, connErr, wr, calls, wthread,
                    rcall, wire, wireOf, wireLate, delivered, nframes, lastFrame, peerOff,
                    panicked >>

\* copyNBuffer: one round of io.CopyBuffer over io.LimitReader(r, n).  The
\* limit is reached: the copy returns nil.  The transport returns io.EOF: the
\* copy returns nil as well.  The transport returns another error: the copy
\* returns it.  Otherwise the bytes read are handed to c.recvWriter.Write,
\* which fails at once when the pipe is closed.
copyNBuffer ==
    /\ ~panicked
    /\ rd.pc = "copy"
    /\ IF rd.rem = 0
       THEN /\ AfterData(NoErr, rd.flen)
            /\ UNCHANGED << recvPipe, peerOff >>
       ELSE IF ConnReadErrs # {}
       THEN /\ \E e \in ConnReadErrs :
                  IF e = EOF THEN AfterData(NoErr, rd.flen)
                  ELSE AfterData(e, 0)
            /\ UNCHANGED << recvPipe, peerOff >>
       ELSE LET nr == Min(Min(Head(rd.chunks), rd.rem), subprotoMaxFrameSize)
            IN /\ peerOff' = peerOff + nr
               /\ IF recvPipe.werr # NoErr
                  THEN /\ AfterData(ErrClosedPipe, 0)
                       /\ UNCHANGED recvPipe
                  ELSE /\ recvPipe' = [recvPipe EXCEPT
                                         !.offer = TRUE,
                                         !.data = << Seg(PeerSrc, peerOff, nr) >>]
                       /\ rd' = [rd EXCEPT !.pc = "pipeWrite",
                                           !.rem = @ - nr,
                                           !.chunks = Tail(@)]
                       /\ UNCHANGED recvNbUnacked
    /\ UNCHANGED << fwd, deadline, connected, sessionID, recvNbAcked, sendNbAcked, closeVars,
                    sendPipe, connErr, wr, calls, wthread, rcall, wire, wireOf, wireLate,
                    delivered, nframes, lastFrame, panicked >>

\* copyNBuffer: the receive pipe is closed while c.recvWriter.Write is
\* blocked: Write returns ErrClosedPipe and so does the copy
copyNBuffer_closed ==
    /\ ~panicked
    /\ rd.pc = "pipeWrite"
    /\ recvPipe.werr # NoErr
    /\ recvPipe' = [recvPipe EXCEPT !.offer = FALSE, !.data = << >>]
    /\ AfterData(ErrClosedPipe, 0)
    /\ UNCHANGED << fwd, deadline, connected, sessionID, recvNbAcked, sendNbAcked, closeVars,
                    sendPipe, connErr, wr, calls, wthread, rcall, wire, wireOf, wireLate,
                    delivered, nframes, lastFrame, peerOff, panicked >>

\* readFrame: c.writeAck(c.recvNbUnacked), that is c.conn.Write of the ACK
\* frame; its error is returned at once
writeAck ==
    /\ ~panicked
    /\ rd.pc = "writeAck"
    /\ IF ConnWriteErrs # {}
       THEN /\ \E e \in ConnWriteErrs :
                  rd' = [ReaderFail(e) EXCEPT !.ackFailed = TRUE]
            /\ UNCHANGED << wire, wireOf, wireLate >>
       ELSE /\ wire' = Append(wire, makeAckFrame(recvNbUnacked))
            /\ wireOf' = Append(wireOf, 0)
            /\ wireLate' = Late
            /\ rd' = [rd EXCEPT !.pc = "acked"]
    /\ UNCHANGED << fwd, deadline, connVars, closeVars, recvPipe, sendPipe, connErr,
                    wr, calls, wthread, rcall, delivered, nframes, lastFrame,
                    peerOff, panicked >>

\* readFrame after the ACK is written: c.recvNbAcked = c.recvNbUnacked, then
\* return the error of readDataFrame
readFrame_acked ==
    /\ ~panicked
    /\ rd.pc = "acked"
    /\ recvNbAcked' = recvNbUnacked
    /\ rd' = IF rd.derr # NoErr THEN ReaderFail(rd.derr)
             ELSE ReaderAt("readFrame")
    /\ UNCHANGED << fwd, deadline, connected, sessionID, recvNbUnacked, sendNbAcked,
                    closeVars, recvPipe, sendPipe, connErr, wr, calls, wthread,
                    rcall, wire, wireOf, wireLate, delivered, nframes, lastFrame,
                    peerOff, panicked >>

\* closeWriters(err) in read(): c.sendWriter.CloseWithError(err)
read_closeSend ==
    /\ ~panicked
    /\ rd.pc = "closeSend"
    /\ sendPipe' = CloseWithError(sendPipe, rd.err)
    /\ rd' = [rd EXCEPT !.pc = "closeRecv"]
    /\ UNCHANGED << fwd, deadline, connVars, closeVars, recvPipe, connErr, wr, calls, wthread,
                    rcall, wire, wireOf, wireLate, delivered, nframes, lastFrame, peerOff, panicked >>

\* closeWriters(err) in read(): c.recvWriter.CloseWithError(err); break
read_closeRecv ==
    /\ ~panicked
    /\ rd.pc = "closeRecv"
    /\ recvPipe' = CloseWithError(recvPipe, rd.err)
    /\ rd' = [rd EXCEPT !.pc = "exited"]
    /\ UNCHANGED << fwd, deadline, connVars, closeVars, sendPipe, connErr, wr, calls, wthread,
                    rcall, wire, wireOf, wireLate, delivered, nframes, lastFrame, peerOff, panicked >>

\* ------------------------------------------------------- application: Read

\* the error with which the reader loop has ended, NoErr while it runs
ReaderEnded == IF rd.pc = "exited" THEN rd.err ELSE NoErr

\* Read(buf) is entered with len(buf) = k
Conn_Read(k) ==
    /\ ~panicked
    /\ rcall.pc = "idle"
    /\ rcall' = [pc |-> "blocked", size |-> k, n |-> 0, err |-> NoErr,
                 ended |-> NoErr]
    /\ UNCHANGED << deadline, connVars, closeVars, recvPipe, sendPipe, connErr, rd, wr,
                    calls, wthread, wire, wireOf, wireLate, delivered, nframes, lastFrame, peerOff,
                    panicked >>

\* Read, called by the application
Read(k) ==
    /\ Conn_Read(k)
    /\ UNCHANGED fwd

\* c.recvReader.Read(buf) returns: the pipe's error when it is closed,
\* otherwise the bytes of the reader loop's write that fit in buf
Read_return ==
    /\ ~panicked
    /\ rcall.pc = "blocked"
    /\ IF recvPipe.werr # NoErr
       THEN /\ rcall' = [rcall EXCEPT !.pc = "idle", !.n = 0,
                                      !.err = recvPipe.werr,
                                      !.ended = ReaderEnded]
            /\ UNCHANGED << recvPipe, rd, delivered >>
       ELSE /\ recvPipe.offer
            /\ LET nr == Min(rcall.size, BLen(recvPipe.data))
                   rest == BDrop(recvPipe.data, nr)
               IN /\ rcall' = [rcall EXCEPT !.pc = "idle", !.n = nr,
                                            !.err = NoErr,
                                            !.ended = ReaderEnded]
                  /\ delivered' = BCat(delivered, BTake(recvPipe.data, nr))
                  /\ IF rest = << >>
                     THEN /\ recvPipe' = [recvPipe EXCEPT !.offer = FALSE,
                                                          !.data = << >>]
                          /\ rd' = [rd EXCEPT !.pc = "copy"]
                     ELSE /\ recvPipe' = [recvPipe EXCEPT !.data = rest]
                          /\ UNCHANGED rd
    /\ UNCHANGED << fwd, deadline, connVars, closeVars, sendPipe, connErr, wr, calls, wthread,
                    wire, wireOf, wireLate, nframes, lastFrame, peerOff, panicked >>

\* ------------------------------------------------------ application: Close

\* Close: c.closeOnceFunc(), which closes sendNbCh the first time it runs
Conn_Close(c) ==
    /\ ~panicked
    /\ closers[c] = "idle"
    /\ closers' = [closers EXCEPT ![c] = "connClose"]
    /\ onceDone' = TRUE
    /\ IF onceDone
       THEN UNCHANGED << chClosed, chCloses >>
       ELSE /\ chCloses' = chCloses + 1
            /\ chClosed' = TRUE
    /\ UNCHANGED << deadline, connVars, connCloses, recvPipe, sendPipe, connErr, rd, wr,
                    calls, wthread, rcall, wire, wireOf, wireLate, delivered, nframes, lastFrame,
                    peerOff, panicked >>

\* Close, called by the application
Close_once(c) ==
    /\ Conn_Close(c)
    /\ UNCHANGED fwd

\* Close: return c.conn.Close()
Conn_Close_conn(c) ==
    /\ ~panicked
    /\ closers[c] = "connClose"
    /\ closers' = [closers EXCEPT ![c] = "returned"]
    /\ connCloses' = connCloses + 1
    /\ connErr' = IF connErr = NoErr THEN NetClosed ELSE connErr
    /\ UNCHANGED << deadline, connVars, chClosed, onceDone, chCloses, recvPipe, sendPipe,
                    rd, wr, calls, wthread, rcall, wire, wireOf, wireLate, delivered,
                    nframes, lastFrame, peerOff, panicked >>

\* Close, called by the application: return c.conn.Close()
Close_conn(c) ==
    /\ Conn_Close_conn(c)
    /\ UNCHANGED fwd

\* ---------------------------------------------------------------- transport

\* the transport ends on its own: the peer closes it, or the stream ends
TransportFail(e) ==
    /\ ~panicked
    /\ connErr = NoErr
    /\ connErr' = e
    /\ UNCHANGED << fwd, deadline, connVars, closeVars, recvPipe, sendPipe, rd, wr, calls,
                    wthread, rcall, wire, wireOf, wireLate, delivered, nframes, lastFrame, peerOff,
                    panicked >>

\* SetDeadline(t): c.conn.SetDeadline(t), which changes nothing once the
\* transport is closed
SetDeadline(t) ==
    /\ ~panicked
    /\ IF connErr = NetClosed THEN UNCHANGED deadline
       ELSE deadline' = [read |-> t = "past", write |-> t = "past"]
    /\ UNCHANGED << fwd, connVars, closeVars, recvPipe, sendPipe, connErr, rd, wr,
                    calls, wthread, rcall, wire, wireOf, wireLate, delivered, nframes,
                    lastFrame, peerOff, panicked >>

\* SetReadDeadline(t): c.conn.SetReadDeadline(t)
SetReadDeadline(t) ==
    /\ ~panicked
    /\ IF connErr = NetClosed THEN UNCHANGED deadline
       ELSE deadline' = [deadline EXCEPT !.read = (t = "past")]
    /\ UNCHANGED << fwd, connVars, closeVars, recvPipe, sendPipe, connErr, rd, wr,
                    calls, wthread, rcall, wire, wireOf, wireLate, delivered, nframes,
                    lastFrame, peerOff, panicked >>

\* SetWriteDeadline(t): c.conn.SetWriteDeadline(t)
SetWriteDeadline(t) ==
    /\ ~panicked
    /\ IF connErr = NetClosed THEN UNCHANGED deadline
       ELSE deadline' = [deadline EXCEPT !.write = (t = "past")]
    /\ UNCHANGED << fwd, connVars, closeVars, recvPipe, sendPipe, connErr, rd, wr,
                    calls, wthread, rcall, wire, wireOf, wireLate, delivered, nframes,
                    lastFrame, peerOff, panicked >>

\* ---------------------------------------------------------------- Forwarder

\* handleConn: iap.Dial returns a tunnel, which newConn has just made and
\* whose two loops are started; go io.Copy(conn, tun) is started and
\* io.Copy(tun, conn) is entered
handleConn_dial ==
    /\ fwd.pc = "dial"
    /\ fwd' = [fwd EXCEPT !.pc = "copy", !.dialed = TRUE,
                          !.up = "connRead", !.down = "tunRead"]
    /\ UNCHANGED tunnelVars

\* handleConn: iap.Dial returns an error; it is logged and handleConn returns
handleConn_dialErr ==
    /\ fwd.pc = "dial"
    /\ fwd' = [fwd EXCEPT !.pc = "returned"]
    /\ UNCHANGED tunnelVars

\* io.Copy(tun, conn): conn.Read returns bytes of the client, or io.EOF once
\* the client has closed its end, or an error once the socket is closed
copyUp_read ==
    /\ fwd.up = "connRead"
    /\ IF fwd.sockClosed
       THEN fwd' = [fwd EXCEPT !.up = "done"]
       ELSE IF fwd.fromClient # << >>
       THEN fwd' = [fwd EXCEPT !.up = "tunWrite",
                               !.chunk = Head(fwd.fromClient),
                               !.fromClient = Tail(@)]
       ELSE /\ fwd.client = "closed"
            /\ fwd' = [fwd EXCEPT !.up = "done"]
    /\ UNCHANGED tunnelVars

\* io.Copy(tun, conn): tun.Write(buf[0:nr]) is entered
copyUp_write ==
    /\ fwd.up = "tunWrite"
    /\ Conn_Write(1, fwd.chunk)
    /\ fwd' = [fwd EXCEPT !.up = "inWrite"]

\* io.Copy(tun, conn): tun.Write has returned; an error or a short write
\* ends the copy, otherwise conn.Read is called again
copyUp_written ==
    /\ fwd.up = "inWrite"
    /\ wthread[1] = 0
    /\ LET call == calls[Len(calls)]
       IN IF call.err # NoErr \/ call.n < call.len
          THEN fwd' = [fwd EXCEPT !.up = "done"]
          ELSE fwd' = [fwd EXCEPT !.up = "connRead"]
    /\ UNCHANGED tunnelVars

\* io.Copy(conn, tun): tun.Read(buf) is entered
copyDown_read ==
    /\ fwd.down = "tunRead"
    /\ Conn_Read(CopyBufSize)
    /\ fwd' = [fwd EXCEPT !.down = "inRead"]

\* io.Copy(conn, tun): tun.Read has returned bytes; conn.Write passes them
\* on, which the socket accepts also after the client has closed its end;
\* or it fails, because the client is gone or the socket is closed, which
\* ends the copy
copyDown_write ==
    /\ fwd.down = "inRead"
    /\ rcall.pc = "idle"
    /\ rcall.n > 0
    /\ \/ /\ ~fwd.sockClosed
          /\ fwd' = [fwd EXCEPT !.down = "tunRead",
                                !.sentClient = @ + rcall.n]
       \/ /\ fwd.client # "open" \/ fwd.sockClosed
          /\ fwd' = [fwd EXCEPT !.down = "done"]
    /\ UNCHANGED tunnelVars

\* io.Copy(conn, tun): tun.Read has returned the error of the closed pipe,
\* which ends the copy
copyDown_end ==
    /\ fwd.down = "inRead"
    /\ rcall.pc = "idle"
    /\ rcall.n = 0
    /\ rcall.err # NoErr
    /\ fwd' = [fwd EXCEPT !.down = "done"]
    /\ UNCHANGED tunnelVars

\* handleConn: io.Copy(tun, conn) has returned; the disconnect is logged and
\* the deferred tun.Close() is entered: c.closeOnceFunc()
handleConn_close ==
    /\ fwd.pc = "copy"
    /\ fwd.up = "done"
    /\ Conn_Close(1)
    /\ fwd' = [fwd EXCEPT !.pc = "close"]

\* handleConn: the deferred tun.Close() ends with c.conn.Close(), and
\* handleConn returns
handleConn_return ==
    /\ fwd.pc = "close"
    /\ Conn_Close_conn(1)
    /\ fwd' = [fwd EXCEPT !.pc = "returned"]

\* the client sends n bytes, which one conn.Read will return
ClientSend(n) ==
    /\ fwd.client = "open"
    /\ fwd.nsent < MaxChunks
    /\ fwd' = [fwd EXCEPT !.fromClient = Append(@, n), !.nsent = @ + 1]
    /\ UNCHANGED tunnelVars

\* the client closes its end of the connection
ClientClose ==
    /\ fwd.client = "open"
    /\ fwd' = [fwd EXCEPT !.client = "closed"]
    /\ UNCHANGED tunnelVars

\* -------------------------------------------------------------------- system

\* the steps of the writer loop
WriterLoop ==
    \/ writeFrame_eof
    \/ writeFrame_read
    \/ writeFrame_write
    \/ write_closeSend
    \/ write_closeRecv

\* the steps with which the reader loop ends
ReaderEnd ==
    \/ readFrame_err
    \/ read_closeSend
    \/ read_closeRecv

\* the steps of the reader loop inside a SUCCESS frame
ReaderSuccess ==
    \/ readSuccessFrame
    \/ readSuccessFrame_id

\* the steps of the reader loop inside a DATA frame
ReaderData ==
    \/ readDataFrame
    \/ copyNBuffer
    \/ copyNBuffer_closed
    \/ writeAck
    \/ readFrame_acked

\* what is left on the transport of a session id that was read short
Leftover == IF ShortID(lastFrame) THEN {LeftoverFrame(lastFrame)} ELSE {}

\* the frames the peer sends on the sending side's specification
SendInbound ==
    { f \in InboundFrames :
        \/ f.tag = subprotoTagSuccess /\ f.sid = SessionABCD /\ ~ShortID(f)
        \/ f.tag = subprotoTagData /\ f.len > subprotoMaxFrameSize }

\* threads are interchangeable: a new call is made by the first idle one
FirstIdleWriter(t) == wthread[t] = 0 /\ \A u \in 1 .. t - 1 : wthread[u] # 0

\* session ids are interchangeable: the first handshake carries "abcd"
FirstSession(f) == f.sid = SessionWXYZ => connected

FirstIdleCloser(c) == closers[c] = "idle" /\ \A d \in 1 .. c - 1 : closers[d] # "idle"

\* the sending side: several writing and closing threads, a peer that
\* completes the handshake or violates the framing, a transport that may
\* fail, and a write deadline that may pass and be lifted
NextSend ==
    \/ \E t \in Writers, n \in WriteLens :
         Len(calls) < MaxWrites /\ FirstIdleWriter(t) /\ Write(t, n)
    \/ \E t \in Writers : Write_panic(t)
    \/ \E t \in Writers : Write_pipe(t)
    \/ \E t \in Writers : Write_closed(t)
    \/ \E t \in Writers : writeFrame_recv(t)
    \/ \E f \in SendInbound : nframes < MaxFramesSend /\ readFrame(f)
    \/ \E c \in Closers : FirstIdleCloser(c) /\ Close_once(c)
    \/ \E c \in Closers : Close_conn(c)
    \/ \E e \in TransportErrs : TransportFail(e)
    \/ \E t \in DeadlineTimes : SetWriteDeadline(t)
    \/ WriterLoop
    \/ ReaderEnd
    \/ ReaderSuccess
    \/ readDataFrame

SpecSend == Init /\ [][NextSend]_vars

\* the frames the peer sends on the receiving side's specification: the
\* handshake, and DATA frames of every kind
RecvInbound ==
    { f \in InboundFrames :
        \/ f.tag = subprotoTagSuccess /\ f.sid = SessionABCD /\ ~ShortID(f)
        \/ f.tag = subprotoTagSuccess /\ f.len > subprotoMaxFrameSize
        \/ f.tag = subprotoTagData }

\* the receiving side: a peer that sends DATA frames, an application that
\* reads with buffers of several sizes, one writing and one closing thread,
\* a transport that may fail, and a read deadline that may pass and be lifted
NextRecv ==
    \/ Len(calls) < MaxWritesRecv /\ Write(1, 5)
    \/ Write_panic(1)
    \/ Write_pipe(1)
    \/ Write_closed(1)
    \/ writeFrame_recv(1)
    \/ \E f \in RecvInbound : nframes < MaxFrames /\ readFrame(f)
    \/ \E k \in ReadSizes : Read(k)
    \/ Read_return
    \/ Close_once(1)
    \/ Close_conn(1)
    \/ \E e \in TransportErrs : TransportFail(e)
    \/ \E t \in DeadlineTimes : SetReadDeadline(t)
    \/ WriterLoop
    \/ ReaderEnd
    \/ ReaderSuccess
    \/ ReaderData

SpecRecv == Init /\ [][NextRecv]_vars

\* the frames the peer sends on the specification of the handshake: every
\* kind of SUCCESS frame, ACK frames, a frame with an unknown tag, and
\* DATA frames of 16384 bytes
HandshakeInbound ==
    { f \in InboundFrames :
        f.tag = subprotoTagData =>
            f.chunks = << subprotoMaxFrameSize >> }

\* the steps with which the writer loop ends when Close is called
WriterEnd ==
    \/ writeFrame_eof
    \/ write_closeSend
    \/ write_closeRecv

\* the handshake and the control frames: a peer that sends frames of every
\* tag in every order, an application that reads, writes and closes, a
\* transport that may fail, and a read deadline that may pass and be lifted
NextHandshake ==
    \/ Len(calls) < MaxWritesHandshake /\ Write(1, 5)
    \/ Write_panic(1)
    \/ Write_pipe(1)
    \/ Write_closed(1)
    \/ writeFrame_recv(1)
    \/ \E f \in HandshakeInbound \cup Leftover :
         nframes < MaxFramesHandshake /\ FirstSession(f) /\ readFrame(f)
    \/ Read(subprotoMaxFrameSize)
    \/ Read_return
    \/ Close_once(1)
    \/ Close_conn(1)
    \/ \E e \in TransportErrs : TransportFail(e)
    \/ \E t \in DeadlineTimes : SetReadDeadline(t)
    \/ WriterLoop
    \/ ReaderEnd
    \/ ReaderSuccess
    \/ readAckFrame
    \/ ReaderData

SpecHandshake == Init /\ [][NextHandshake]_vars

\* the frames the peer sends on the specification of the acknowledgements:
\* the handshake, and DATA frames of 16384 bytes and of 1 byte
AckInbound ==
    { f \in InboundFrames :
        \/ f.tag = subprotoTagSuccess /\ f.sid = SessionABCD /\ ~ShortID(f)
        \/ f.tag = subprotoTagData /\ f.chunks = << subprotoMaxFrameSize >>
        \/ f.tag = subprotoTagData /\ f.len = 1 }

\* the acknowledgements: a peer that sends enough DATA frames for several
\* ACKs, an application that reads, writes and closes, a transport that may
\* fail, and a write deadline that may pass and be lifted
NextAck ==
    \/ Len(calls) < MaxWritesRecv /\ Write(1, 5)
    \/ Write_panic(1)
    \/ Write_pipe(1)
    \/ Write_closed(1)
    \/ writeFrame_recv(1)
    \/ \E f \in AckInbound : nframes < MaxFramesAck /\ readFrame(f)
    \/ Read(subprotoMaxFrameSize)
    \/ Read_return
    \/ Close_once(1)
    \/ Close_conn(1)
    \/ \E e \in TransportErrs : TransportFail(e)
    \/ \E t \in DeadlineTimes : SetWriteDeadline(t)
    \/ WriterLoop
    \/ ReaderEnd
    \/ ReaderSuccess
    \/ ReaderData

SpecAck == Init /\ [][NextAck]_vars

\* the frames the peer sends on the specification of Close
CloseInbound ==
    { f \in InboundFrames :
        \/ f.tag = subprotoTagSuccess /\ f.sid = SessionABCD /\ ~ShortID(f)
        \/ f.tag = subprotoTagData /\ f.chunks = << subprotoMaxFrameSize >> }

\* Close under fair scheduling: a tunnel in use by one writing and one
\* reading thread, closed by one thread
NextClose ==
    \/ Len(calls) < MaxWritesClose /\ Write(1, 5)
    \/ Write_panic(1)
    \/ Write_pipe(1)
    \/ Write_closed(1)
    \/ writeFrame_recv(1)
    \/ \E f \in CloseInbound : nframes < MaxFramesClose /\ readFrame(f)
    \/ Read(subprotoMaxFrameSize)
    \/ Read_return
    \/ Close_once(1)
    \/ Close_conn(1)
    \/ \E e \in TransportErrs : TransportFail(e)
    \/ \E t \in DeadlineTimes : SetDeadline(t)
    \/ WriterLoop
    \/ ReaderEnd
    \/ ReaderSuccess
    \/ ReaderData

\* every goroutine that can take a step takes it in the end: the two loops,
\* and the calls of Write, Read and Close that are in progress.  The
\* application need not start a call, the peer need not send, and the
\* transport need not fail.
FairClose ==
    /\ WF_vars(WriterLoop)
    /\ WF_vars(ReaderEnd)
    /\ WF_vars(ReaderSuccess)
    /\ WF_vars(ReaderData)
    /\ WF_vars(writeFrame_recv(1))
    /\ WF_vars(Write_panic(1))
    /\ WF_vars(Write_pipe(1))
    /\ WF_vars(Write_closed(1))
    /\ WF_vars(Read_return)
    /\ WF_vars(Close_conn(1))

SpecClose == Init /\ [][NextClose]_vars /\ FairClose

\* the frames the peer sends on a forwarded connection's tunnel: the
\* handshake, and DATA frames of 1 byte
ProxyInbound ==
    { f \in InboundFrames :
        \/ f.tag = subprotoTagSuccess /\ f.sid = SessionABCD /\ ~ShortID(f)
        \/ f.tag = subprotoTagData /\ f.len = 1 }

\* the Forwarder: handleConn for one accepted connection (the calls of
\* handleConn share no state), with the tunnel it dials, and with the client
\* and the tunnel's peer as environment.  The tunnel exists from the return
\* of iap.Dial on: before it the transport neither delivers nor fails, and
\* no step of the tunnel's loops is enabled.
NextProxy ==
    \/ handleConn_dial
    \/ handleConn_dialErr
    \/ \E n \in ChunkLens : ClientSend(n)
    \/ ClientClose
    \/ copyUp_read
    \/ copyUp_write
    \/ copyUp_written
    \/ copyDown_read
    \/ copyDown_write
    \/ copyDown_end
    \/ handleConn_close
    \/ handleConn_return
    \/ Write_pipe(1)
    \/ Write_closed(1)
    \/ writeFrame_recv(1)
    \/ Read_return
    \/ \E f \in ProxyInbound :
         fwd.dialed /\ nframes < MaxFramesProxy /\ readFrame(f)
    \/ \E e \in TransportErrs : fwd.dialed /\ TransportFail(e)
    \/ WriterLoop
    \/ ReaderEnd
    \/ ReaderSuccess
    \/ readDataFrame
    \/ copyNBuffer
    \/ copyNBuffer_closed

SpecProxy == Init /\ [][NextProxy]_vars


\* ------------------------------------------------------------------- claims

Ceil(n, m) == (n + m - 1) \div m

\* the positions on the wire of the DATA frames written while serving call id
FramesOf(id) ==
    { i \in 1 .. Len(wire) : wireOf[i] = id /\ wire[i].tag = subprotoTagData }

\* the payloads of those frames, concatenated in wire order from position i on
RECURSIVE PayloadFrom(_, _)
PayloadFrom(i, id) ==
    IF i > Len(wire) THEN << >>
    ELSE IF i \in FramesOf(id) THEN BCat(wire[i].payload, PayloadFrom(i + 1, id))
    ELSE PayloadFrom(i + 1, id)

\* every Write call so far was made by one and the same thread
OneCaller == \A i, j \in 1 .. Len(calls) : calls[i].thread = calls[j].thread

\* C1: with one writing caller, a Write of N bytes that the writer loop has
\* served to the end was emitted as exactly ceil(N/16384) DATA frames whose
\* payloads, concatenated in wire order, are the bytes written.
C1_WriteChunking ==
    OneCaller =>
        \A id \in 1 .. Len(calls) :
            calls[id].served = "done" =>
                /\ Cardinality(FramesOf(id)) =
                       Ceil(calls[id].len, subprotoMaxFrameSize)
                /\ PayloadFrom(1, id) = Buf(id, calls[id].len)

\* on an established tunnel a Write of 20000 bytes has been served to the
\* end, as two frames of 16384 and 3616 bytes
C1_Witness ==
    \E id \in 1 .. Len(calls) :
        /\ connected
        /\ OneCaller
        /\ calls[id].served = "done"
        /\ calls[id].len = 20000
        /\ \E i \in FramesOf(id) :
              /\ i + 1 \in FramesOf(id)
              /\ wire[i].len = subprotoMaxFrameSize
              /\ wire[i + 1].len = 3616


\* C2: a Write call made after a loop has closed the pipes with error E
\* returns E.
C2_WriteReturnsTerminalError ==
    \A id \in 1 .. Len(calls) :
        (calls[id].term # NoErr /\ calls[id].st = "returned") =>
            calls[id].err = calls[id].term

\* C3: whatever the interleaving of Close and Write, no Write panics, and a
\* Write that returns has completed or reports the pipe's close.
C3_CloseWriteSafe ==
    /\ ~panicked
    /\ \A id \in 1 .. Len(calls) :
          calls[id].st = "returned" =>
              calls[id].err \in {NoErr, ErrClosedPipe, sendPipe.werr}

\* C5: however many Close calls are made, the announcement channel is closed
\* at most once and the transport is closed at most once.
C5_CloseOnce == chCloses <= 1 /\ connCloses <= 1

\* C6: every DATA frame on the wire carries bytes of the Write call the
\* writer loop was serving, and only those; the frames of one Write call are
\* consecutive among the DATA frames.
C6_WritesNotInterleaved ==
    /\ \A i \in 1 .. Len(wire) :
          wire[i].tag = subprotoTagData =>
              \A k \in 1 .. Len(wire[i].payload) :
                  wire[i].payload[k].src = wireOf[i]
    /\ \A i, j, k \in 1 .. Len(wire) :
          (i < j /\ j < k /\ wireOf[i] = wireOf[k] /\ wireOf[i] # 0
             /\ wire[j].tag = subprotoTagData) => wireOf[j] = wireOf[i]

\* C8: every DATA frame on the wire declares the length of its payload, and
\* that length is at most 16384.
C8_FrameSizeBound ==
    \A i \in 1 .. Len(wire) :
        wire[i].tag = subprotoTagData =>
            /\ wire[i].len = BLen(wire[i].payload)
            /\ wire[i].len <= subprotoMaxFrameSize

\* a DATA frame of the maximal size is on the wire, cut from a longer Write
C8_Witness ==
    \E i \in 1 .. Len(wire) :
        /\ wire[i].tag = subprotoTagData
        /\ wire[i].len = subprotoMaxFrameSize
        /\ calls[wireOf[i]].len > subprotoMaxFrameSize


\* C4 as stated: a Read that returns after the reader loop has ended with
\* error E returns E.
C4_ReadReturnsReaderError ==
    (rcall.pc = "idle" /\ rcall.ended # NoErr) => rcall.err = rcall.ended

\* the writer loop has gone through its close of the receive pipe
WriterClosedRecv == wr.pc = "exited"

\* C4, amended: a Read that returns after the reader loop has ended with
\* error E returns the error the receive pipe was first closed with: that
\* is E, unless the writer loop had closed the pipe before with its own
\* error.  The error of the closed pipe never changes.
C4_ReadReturnsFirstError ==
    /\ [](  (rcall.pc = "idle" /\ rcall.ended # NoErr) =>
               /\ rcall.err = recvPipe.werr
               /\ \/ rcall.err = rcall.ended
                  \/ WriterClosedRecv /\ rcall.err = wr.err )
    /\ [][ recvPipe.werr # NoErr => recvPipe.werr' = recvPipe.werr ]_vars

\* the reader loop has ended with CloseError{1000, "bye"}, the writer loop
\* has put its own error to the closed pipe afterwards, and a Read has
\* returned the reader loop's error
C4_Witness ==
    /\ rcall.pc = "idle"
    /\ rcall.ended = CloseError(1000, "bye")
    /\ rcall.err = CloseError(1000, "bye")
    /\ wr.pc = "exited"
    /\ wr.err # rd.err

PeerBytes(n) == IF n = 0 THEN << >> ELSE << Seg(PeerSrc, 0, n) >>

\* C7: the bytes Read has returned, followed by the bytes on offer in the
\* receive pipe, are the bytes of the inbound DATA payloads in wire order:
\* none lost, none twice, none out of place, whatever the Read sizes.
C7_ReceiveFaithful ==
    /\ BCat(delivered, recvPipe.data) =
           PeerBytes(BLen(delivered) + BLen(recvPipe.data))
    /\ recvPipe.werr = NoErr =>
           BLen(delivered) + BLen(recvPipe.data) = peerOff

\* payloads of 16384 bytes and of 1 byte have been read in full, the first
\* of them through a buffer too small for it
C7_Witness ==
    /\ rd.pc = "readFrame"
    /\ delivered = PeerBytes(subprotoMaxFrameSize + 1)
    /\ rcall.size < subprotoMaxFrameSize
    /\ rcall.n = 1

\* C9: a DATA or ACK frame that arrives while connected is false makes the
\* reader loop fail with ProtocolError, without a byte reaching the receive
\* pipe and without a change of the counters; the loop then closes both
\* pipes with that error and exits.  So a non-zero recvNbUnacked or
\* sendNbAcked implies connected.
C9_HandshakeGate ==
    /\ []( /\ (recvNbUnacked # 0 \/ sendNbAcked # 0) => connected
           /\ (rd.pc = "exited" /\ rd.err = ErrNoSuccess) =>
                 /\ sendPipe.werr # NoErr /\ recvPipe.werr # NoErr
                 /\ wr.pc \in {"recv", "pipeRead", "connWrite", "closeSend"} =>
                       sendPipe.werr = ErrNoSuccess /\ recvPipe.werr = ErrNoSuccess )
    /\ [][ ( /\ nframes' = nframes + 1
             /\ ~connected
             /\ lastFrame'.tag \in {subprotoTagData, subprotoTagAck} ) =>
           ( /\ rd'.pc = "closeSend"
             /\ rd'.err = ErrNoSuccess
             /\ UNCHANGED << connected, recvNbAcked, recvNbUnacked, sendNbAcked,
                             recvPipe, delivered, peerOff >> ) ]_vars

\* a DATA frame came first: the reader loop has exited with the
\* ProtocolError and both pipes are closed with it
C9_Witness ==
    /\ ~connected
    /\ lastFrame.tag = subprotoTagData
    /\ lastFrame.len <= subprotoMaxFrameSize
    /\ rd.pc = "exited"
    /\ rd.err = ErrNoSuccess
    /\ sendPipe.werr = ErrNoSuccess
    /\ recvPipe.werr = ErrNoSuccess

\* C10: recvNbAcked, recvNbUnacked and sendNbAcked never decrease.
C10_CountersMonotonic ==
    [][ /\ recvNbAcked' >= recvNbAcked
        /\ recvNbUnacked' >= recvNbUnacked
        /\ sendNbAcked' >= sendNbAcked ]_vars

\* the reader loop is through with a DATA frame: it is about to read the
\* next tag, or readFrame has returned an error
FinishedData ==
    /\ lastFrame.tag = subprotoTagData
    /\ rd.pc \in {"readFrame", "closeSend", "closeRecv", "exited"}

\* C11 as stated: recvNbAcked <= recvNbUnacked in every state, and whenever
\* the reader loop has finished handling a DATA frame, also with an error
\* such as a failed ACK write, recvNbUnacked - recvNbAcked <= 2 * 16384.
C11_AckGapBounded ==
    /\ recvNbAcked <= recvNbUnacked
    /\ FinishedData => recvNbUnacked - recvNbAcked <= subprotoAckThreshold

\* C11, amended: recvNbAcked <= recvNbUnacked in every state; whenever the
\* reader loop has finished handling a DATA frame and the ACK write has not
\* failed, recvNbUnacked - recvNbAcked <= 2 * 16384; when the ACK write has
\* failed, recvNbAcked is left as it was, the difference is above 2 * 16384
\* and at most 3 * 16384, and the reader loop is on its way out.
C11_AckGapUnlessAckFailed ==
    /\ recvNbAcked <= recvNbUnacked
    /\ recvNbUnacked - recvNbAcked <= subprotoAckThreshold + subprotoMaxFrameSize
    /\ (FinishedData /\ ~rd.ackFailed) =>
           recvNbUnacked - recvNbAcked <= subprotoAckThreshold
    /\ rd.ackFailed =>
           /\ FinishedData
           /\ rd.pc # "readFrame"
           /\ recvNbUnacked - recvNbAcked > subprotoAckThreshold

\* after payloads of 16384, 16384 and 1 bytes the ACK was due, its write
\* failed, and readFrame returned with 32769 bytes unacknowledged
C11_Witness ==
    /\ rd.ackFailed
    /\ recvNbUnacked = subprotoAckThreshold + 1
    /\ recvNbAcked = 0

\* the tunnel is established, its transport accepts writes and its writer
\* loop is running
Healthy ==
    /\ connected
    /\ ConnWriteErrs = {}
    /\ ~chClosed
    /\ sendPipe.werr = NoErr
    /\ wr.pc \in {"recv", "pipeRead", "connWrite"}

\* C12: on an established tunnel whose transport accepts writes and whose
\* writer loop is running, a Write of any length, 0 included, that has
\* returned has returned len(buf) and no error; a Write is blocked in the
\* send pipe only while bytes of its buffer are still to be taken; and for
\* a Write the writer loop has served, the loop has taken exactly len(buf)
\* bytes of its buffer from the send pipe.
C12_WriteCompletes ==
    Healthy =>
        \A id \in 1 .. Len(calls) :
            /\ calls[id].st = "returned" =>
                   calls[id].n = calls[id].len /\ calls[id].err = NoErr
            /\ calls[id].st = "offering" => calls[id].n < calls[id].len
            /\ calls[id].served = "done" => calls[id].n = calls[id].len

\* C13: a handleConn that has returned has closed the client socket, also
\* when the dial failed, and has closed the tunnel it dialed.
C13_HandlerClosesBoth ==
    fwd.pc = "returned" =>
        /\ fwd.sockClosed
        /\ fwd.dialed => closers[1] = "returned"

\* C14: a SUCCESS frame that arrives when connected is true makes the reader
\* loop fail with a ProtocolError, and the session id never changes once
\* connected is true.
C14_SecondSuccessRejected ==
    [][ connected =>
          /\ sessionID' = sessionID
          /\ (nframes' = nframes + 1 /\ lastFrame'.tag = subprotoTagSuccess) =>
                 (rd'.pc = "closeSend" /\ rd'.err.kind = "ProtocolError") ]_vars

DefinedTags == {subprotoTagSuccess, subprotoTagData, subprotoTagAck}

\* the step in which the reader loop reads the tag of a frame that is none
\* of SUCCESS, DATA and ACK
ReadsUnknownTag == nframes' = nframes + 1 /\ lastFrame'.tag \notin DefinedTags

\* C15: a frame with an unknown tag is ignored in every tunnel state, before
\* and after SUCCESS: the reader loop raises no error and keeps running,
\* and connected, sessionID, the counters and both pipes are unchanged.
C15_UnknownTagIgnored ==
    [][ ReadsUnknownTag =>
          /\ rd'.pc = "readFrame" /\ rd'.err = NoErr
          /\ UNCHANGED << connVars, recvPipe, sendPipe, peerOff, wire >> ]_vars

\* C16: the reader loop and the writer loop are never both at a write to
\* the live transport, and every frame on the wire, DATA or ACK, was written
\* by the writer loop.
C16_WriterLoopOwnsWrites ==
    /\ ~(connErr = NoErr /\ rd.pc = "writeAck" /\ wr.pc = "connWrite")
    /\ \A i \in 1 .. Len(wire) : wireOf[i] # 0

\* the position of the last ACK frame among the first i frames on the wire,
\* 0 when there is none
RECURSIVE LastAckPos(_)
LastAckPos(i) ==
    IF i = 0 THEN 0
    ELSE IF wire[i].tag = subprotoTagAck THEN i
    ELSE LastAckPos(i - 1)

\* the count carried by the last ACK frame among the first i frames on the
\* wire, 0 when there is none
LastAck(i) == IF LastAckPos(i) = 0 THEN 0 ELSE wire[LastAckPos(i)].nb

\* the ACK frames on the wire, in order
AckFrames == SelectSeq(wire, LAMBDA f : f.tag = subprotoTagAck)

\* the step puts an ACK frame on the wire
WritesAck ==
    Len(wire') = Len(wire) + 1 /\ wire'[Len(wire')].tag = subprotoTagAck

\* C17 as stated: an ACK frame is emitted exactly when, after a DATA frame,
\* recvNbUnacked - recvNbAcked > 32768: every ACK on the wire carries more
\* than 32768 above the ACK before it, and between frames the difference is
\* at most 32768.  The frame carries recvNbUnacked, the payload bytes taken
\* off the transport so far.  Received() is in every state the count of the
\* last ACK emitted, 0 when there is none.  Payloads that add up to 32769,
\* such as 16384, 16384 and 1, give exactly one ACK, carrying 32769.
C17_AckAtThreshold ==
    /\ []( /\ recvNbAcked = LastAck(Len(wire))
           /\ \A i \in 1 .. Len(wire) :
                 wire[i].tag = subprotoTagAck =>
                     wire[i].nb - LastAck(i - 1) > subprotoAckThreshold
           /\ rd.pc = "readFrame" =>
                 recvNbUnacked - recvNbAcked <= subprotoAckThreshold
           /\ (rd.pc = "readFrame" /\ recvNbUnacked = subprotoAckThreshold + 1) =>
                 AckFrames = << makeAckFrame(subprotoAckThreshold + 1) >> )
    /\ [][ WritesAck =>
           ( /\ lastFrame.tag = subprotoTagData
             /\ recvNbUnacked - recvNbAcked > subprotoAckThreshold
             /\ wire'[Len(wire')] = makeAckFrame(recvNbUnacked)
             /\ recvNbUnacked = peerOff
             /\ recvNbAcked' = recvNbUnacked ) ]_vars

\* C17, amended: an ACK frame is emitted exactly when, after a DATA frame,
\* recvNbUnacked - recvNbAcked > 32768: every ACK on the wire carries more
\* than 32768 above the ACK before it, and between frames the difference is
\* at most 32768.  The frame carries recvNbUnacked, the payload bytes taken
\* off the transport so far.  Received() is the count of the last ACK
\* emitted, 0 when there is none, except from the write of an ACK to the
\* reader loop's next step, the assignment of recvNbAcked: there it is still
\* the count of the ACK before, and the ACK just written carries
\* recvNbUnacked.  Payloads that add up to 32769, such as 16384, 16384 and
\* 1, give exactly one ACK, carrying 32769.
C17_AckThenReceived ==
    /\ []( /\ rd.pc # "acked" => recvNbAcked = LastAck(Len(wire))
           /\ rd.pc = "acked" =>
                 /\ LastAck(Len(wire)) = recvNbUnacked
                 /\ recvNbAcked = LastAck(LastAckPos(Len(wire)) - 1)
           /\ \A i \in 1 .. Len(wire) :
                 wire[i].tag = subprotoTagAck =>
                     wire[i].nb - LastAck(i - 1) > subprotoAckThreshold
           /\ rd.pc = "readFrame" =>
                 recvNbUnacked - recvNbAcked <= subprotoAckThreshold
           /\ (rd.pc = "readFrame" /\ recvNbUnacked = subprotoAckThreshold + 1) =>
                 AckFrames = << makeAckFrame(subprotoAckThreshold + 1) >> )
    /\ [][ WritesAck =>
           ( /\ lastFrame.tag = subprotoTagData
             /\ recvNbUnacked - recvNbAcked > subprotoAckThreshold
             /\ wire'[Len(wire')] = makeAckFrame(recvNbUnacked)
             /\ recvNbUnacked = peerOff
             /\ rd'.pc = "acked"
             /\ UNCHANGED recvNbAcked ) ]_vars
    /\ [][ (rd.pc = "acked" /\ rd' # rd) =>
           ( /\ recvNbAcked' = recvNbUnacked
             /\ UNCHANGED wire ) ]_vars

\* payloads of 16384, 16384, 1, 16384, 16384 and 1 bytes have been handled,
\* in that order: two ACKs are on the wire, carrying 32769 and 65538, and
\* Received() is 65538
C17_Witness ==
    /\ rd.pc = "readFrame"
    /\ lastFrame.tag = subprotoTagData
    /\ lastFrame.len = 1
    /\ recvNbUnacked = 2 * (subprotoAckThreshold + 1)
    /\ recvNbAcked = 2 * (subprotoAckThreshold + 1)
    /\ AckFrames = << makeAckFrame(subprotoAckThreshold + 1),
                      makeAckFrame(2 * (subprotoAckThreshold + 1)) >>

\* both loops have exited and both pipes are closed with an error
LoopsGone ==
    /\ rd.pc = "exited"
    /\ wr.pc = "exited"
    /\ sendPipe.werr # NoErr
    /\ recvPipe.werr # NoErr

\* C18: after Close is called, whatever the two loops are doing, both loops
\* eventually exit and both pipes are eventually closed with an error.
C18_CloseStopsLoops == (closers[1] # "idle") ~> LoopsGone

\* the frame the step puts on the wire has tag t, if it puts one
WritesOnly(t) == wire' # wire => wire'[Len(wire')].tag = t

\* C19 as stated: connected never goes back to false, and once Close has
\* been called or a loop has closed the pipes, no step changes connected,
\* sessionID or the counters, processes an inbound frame, or writes a frame
\* to the transport.
C19_ClosedAbsorbing ==
    /\ [][ connected => connected' ]_vars
    /\ [][ Closed => UNCHANGED << connVars, nframes, wire >> ]_vars

\* C19, amended: connected never goes back to false; once the reader loop
\* has exited, no step changes connected, sessionID or the counters,
\* processes an inbound frame or writes an ACK frame; once the writer loop
\* has exited, no step writes a DATA frame; so once both loops have exited
\* none of this happens any more.
C19_ExitedAbsorbing ==
    /\ [][ connected => connected' ]_vars
    /\ [][ rd.pc = "exited" =>
             /\ UNCHANGED << connVars, nframes, peerOff, rd >>
             /\ WritesOnly(subprotoTagData) ]_vars
    /\ [][ wr.pc = "exited" =>
             /\ UNCHANGED wr
             /\ WritesOnly(subprotoTagAck) ]_vars

\* the tunnel was established and used, the reader loop has written an ACK
\* frame to the closed tunnel, Close has returned and both loops have exited
C19_Witness ==
    /\ connected
    /\ recvNbUnacked > 0
    /\ \E i \in wireLate : wire[i].tag = subprotoTagAck
    /\ closers[1] = "returned"
    /\ rd.pc = "exited"
    /\ wr.pc = "exited"

\* C20: whenever the reader loop is between frames, recvNbUnacked is the
\* number of payload bytes it has written into the receive pipe, all of
\* which the application has read by then: the length of a DATA frame is
\* added only when that many bytes were taken off the transport and
\* delivered, also when the transport ends or returns a short read inside
\* the payload.
C20_UnackedIsDelivered ==
    rd.pc = "readFrame" =>
        /\ recvNbUnacked = BLen(delivered)
        /\ recvNbUnacked = peerOff

====
